---------------------------- MODULE Spec2Model ----------------------------
(***************************************************************************)
(* State-machine model of the YouTube analyzer script (src/main.py):       *)
(*   - the single-video pipeline of tab1 (one Streamlit script rerun is a  *)
(*     walk of the program counter pc from "idle" back to "idle"),         *)
(*   - the per-video loop of the channel analysis of tab2,                 *)
(*   - the pure functions extract_video_id and clean_text,                 *)
(*   - the transcript pages of create_pdf,                                 *)
(*   - the paging loop of get_all_video_ids.                               *)
(* Python values are modelled as tagged records so that None, strings and  *)
(* dictionaries can be compared: None is [py |-> "None"], a string is      *)
(* [py |-> "str", s |-> <<characters>>].  A character is a one-character   *)
(* TLA+ string when it is ASCII and the string "U+XXXX" of its code point  *)
(* otherwise.                                                              *)
(***************************************************************************)
EXTENDS Integers, Sequences, FiniteSets, TLC

(***************************************************************************)
(* Python values                                                           *)
(***************************************************************************)
None == [py |-> "None"]

Str(s) == [py |-> "str", s |-> s]

\* Python truthiness of None and of strings (bool(None), bool(""))
Truthy(v) == IF v.py = "None" THEN FALSE
             ELSE IF v.py = "str" THEN v.s # <<>>
             ELSE TRUE

(***************************************************************************)
(* clean_text                                                              *)
(***************************************************************************)
\* the dictionary of line 135, in iteration (insertion) order
replacements ==
  <<
    <<<<"U+2019">>, <<"'">>>>,
    <<<<"U+2018">>, <<"'">>>>,
    <<<<"U+201C">>, <<"\"">>>>,
    <<<<"U+201D">>, <<"\"">>>>,
    <<<<"U+2013">>, <<"-">>>>,
    <<<<"U+2014">>, <<"-">>>>,
    <<<<"U+2026">>, <<".", ".", ".">>>>,
    <<<<"U+2022">>, <<"*">>>>,
    <<<<"U+00B7">>, <<"*">>>>,
    <<<<"U+00AB">>, <<"\"">>>>,
    <<<<"U+00BB">>, <<"\"">>>>,
    <<<<"U+2039">>, <<"'">>>>,
    <<<<"U+203A">>, <<"'">>>>,
    <<<<"U+2122">>, <<"(", "T", "M", ")">>>>,
    <<<<"U+00AE">>, <<"(", "R", ")">>>>,
    <<<<"U+00A9">>, <<"(", "C", ")">>>>,
    <<<<"U+00B1">>, <<"+", "/", "-">>>>,
    <<<<"U+00B5">>, <<"u">>>>,
    <<<<"U+00B0">>, <<" ", "d", "e", "g">>>>,
    <<<<"U+00BC">>, <<"1", "/", "4">>>>,
    <<<<"U+00BD">>, <<"1", "/", "2">>>>,
    <<<<"U+00BE">>, <<"3", "/", "4">>>>,
    <<<<"U+00D7">>, <<"x">>>>,
    <<<<"U+00F7">>, <<"/">>>>,
    <<<<"U+2030">>, <<"0", "/", "0", "0">>>>,
    <<<<"U+20AC">>, <<"E", "U", "R">>>>,
    <<<<"U+00A3">>, <<"G", "B", "P">>>>,
    <<<<"U+00A5">>, <<"J", "P", "Y">>>>,
    <<<<"U+00A2">>, <<"c">>>>,
    <<<<"U+00A4">>, <<"$">>>>,
    <<<<"U+00A6">>, <<"|">>>>,
    <<<<"U+00A7">>, <<"S">>>>,
    <<<<"U+00A8">>, <<"\"">>>>,
    <<<<"U+00AA">>, <<"a">>>>,
    <<<<"U+00AC">>, <<"-">>>>,
    <<<<"U+00AF">>, <<"-">>>>,
    <<<<"U+00B4">>, <<"'">>>>,
    <<<<"U+00B8">>, <<",">>>>,
    <<<<"U+00BA">>, <<"o">>>>,
    <<<<"U+00BF">>, <<"?">>>>,
    <<<<"U+00C0">>, <<"A">>>>,
    <<<<"U+00C1">>, <<"A">>>>,
    <<<<"U+00C2">>, <<"A">>>>,
    <<<<"U+00C3">>, <<"A">>>>,
    <<<<"U+00C4">>, <<"A", "e">>>>,
    <<<<"U+00C5">>, <<"A">>>>,
    <<<<"U+00C6">>, <<"A", "E">>>>,
    <<<<"U+00C7">>, <<"C">>>>,
    <<<<"U+00C8">>, <<"E">>>>,
    <<<<"U+00C9">>, <<"E">>>>,
    <<<<"U+00CA">>, <<"E">>>>,
    <<<<"U+00CB">>, <<"E">>>>,
    <<<<"U+00CC">>, <<"I">>>>,
    <<<<"U+00CD">>, <<"I">>>>,
    <<<<"U+00CE">>, <<"I">>>>,
    <<<<"U+00CF">>, <<"I">>>>,
    <<<<"U+00D0">>, <<"D">>>>,
    <<<<"U+00D1">>, <<"N">>>>,
    <<<<"U+00D2">>, <<"O">>>>,
    <<<<"U+00D3">>, <<"O">>>>,
    <<<<"U+00D4">>, <<"O">>>>,
    <<<<"U+00D5">>, <<"O">>>>,
    <<<<"U+00D6">>, <<"O", "e">>>>,
    <<<<"U+00D8">>, <<"O">>>>,
    <<<<"U+00D9">>, <<"U">>>>,
    <<<<"U+00DA">>, <<"U">>>>,
    <<<<"U+00DB">>, <<"U">>>>,
    <<<<"U+00DC">>, <<"U", "e">>>>,
    <<<<"U+00DD">>, <<"Y">>>>,
    <<<<"U+00DE">>, <<"T", "H">>>>,
    <<<<"U+00DF">>, <<"s", "s">>>>,
    <<<<"U+00E0">>, <<"a">>>>,
    <<<<"U+00E1">>, <<"a">>>>,
    <<<<"U+00E2">>, <<"a">>>>,
    <<<<"U+00E3">>, <<"a">>>>,
    <<<<"U+00E4">>, <<"a", "e">>>>,
    <<<<"U+00E5">>, <<"a">>>>,
    <<<<"U+00E6">>, <<"a", "e">>>>,
    <<<<"U+00E7">>, <<"c">>>>,
    <<<<"U+00E8">>, <<"e">>>>,
    <<<<"U+00E9">>, <<"e">>>>,
    <<<<"U+00EA">>, <<"e">>>>,
    <<<<"U+00EB">>, <<"e">>>>,
    <<<<"U+00EC">>, <<"i">>>>,
    <<<<"U+00ED">>, <<"i">>>>,
    <<<<"U+00EE">>, <<"i">>>>,
    <<<<"U+00EF">>, <<"i">>>>,
    <<<<"U+00F0">>, <<"d">>>>,
    <<<<"U+00F1">>, <<"n">>>>,
    <<<<"U+00F2">>, <<"o">>>>,
    <<<<"U+00F3">>, <<"o">>>>,
    <<<<"U+00F4">>, <<"o">>>>,
    <<<<"U+00F5">>, <<"o">>>>,
    <<<<"U+00F6">>, <<"o", "e">>>>,
    <<<<"U+00F8">>, <<"o">>>>,
    <<<<"U+00F9">>, <<"u">>>>,
    <<<<"U+00FA">>, <<"u">>>>,
    <<<<"U+00FB">>, <<"u">>>>,
    <<<<"U+00FC">>, <<"u", "e">>>>,
    <<<<"U+00FD">>, <<"y">>>>,
    <<<<"U+00FE">>, <<"t", "h">>>>,
    <<<<"U+00FF">>, <<"y">>>>
  >>

\* the dictionary of line 159, in iteration order (a repeated key keeps the
\* position of its first occurrence and the value of its last)
emoji_replacements ==
  <<
    <<<<"U+1F30E">>, <<"[", "G", "l", "o", "b", "e", "]">>>>,
    <<<<"U+1F30D">>, <<"[", "G", "l", "o", "b", "e", "]">>>>,
    <<<<"U+1F30F">>, <<"[", "G", "l", "o", "b", "e", "]">>>>,
    <<<<"U+1F525">>, <<"[", "F", "i", "r", "e", "]">>>>,
    <<<<"U+2764", "U+FE0F">>, <<"[", "H", "e", "a", "r", "t", "]">>>>,
    <<<<"U+2705">>, <<"[", "C", "h", "e", "c", "k", "]">>>>,
    <<<<"U+26A0", "U+FE0F">>, <<"[", "W", "a", "r", "n", "i", "n", "g", "]">>>>,
    <<<<"U+26A1">>, <<"[", "L", "i", "g", "h", "t", "n", "i", "n", "g", "]">>>>,
    <<<<"U+2728">>, <<"[", "S", "p", "a", "r", "k", "l", "e", "]">>>>,
    <<<<"U+1F3AF">>, <<"[", "T", "a", "r", "g", "e", "t", "]">>>>,
    <<<<"U+1F4C8">>, <<"[", "C", "h", "a", "r", "t", " ", "U", "p", "]">>>>,
    <<<<"U+1F4C9">>, <<"[", "C", "h", "a", "r", "t", " ", "D", "o", "w", "n", "]">>>>,
    <<<<"U+1F4CA">>, <<"[", "C", "h", "a", "r", "t", "]">>>>,
    <<<<"U+1F4CC">>, <<"[", "P", "u", "s", "h", "p", "i", "n", "]">>>>,
    <<<<"U+1F4CD">>, <<"[", "R", "o", "u", "n", "d", " ", "P", "u", "s", "h", "p", "i", "n", "]">>>>,
    <<<<"U+1F4DD">>, <<"[", "M", "e", "m", "o", "]">>>>,
    <<<<"U+1F50D">>, <<"[", "L", "e", "f", "t", "-", "P", "o", "i", "n", "t", "i", "n", "g", " ", "M", "a", "g", "n", "i", "f", "y", "i", "n", "g", " ", "G", "l", "a", "s", "s", "]">>>>,
    <<<<"U+1F50E">>, <<"[", "R", "i", "g", "h", "t", "-", "P", "o", "i", "n", "t", "i", "n", "g", " ", "M", "a", "g", "n", "i", "f", "y", "i", "n", "g", " ", "G", "l", "a", "s", "s", "]">>>>,
    <<<<"U+1F511">>, <<"[", "K", "e", "y", "]">>>>,
    <<<<"U+1F514">>, <<"[", "B", "e", "l", "l", "]">>>>,
    <<<<"U+1F680">>, <<"[", "R", "o", "c", "k", "e", "t", "]">>>>,
    <<<<"U+1F6D1">>, <<"[", "S", "t", "o", "p", "]">>>>,
    <<<<"U+1F914">>, <<"[", "T", "h", "i", "n", "k", "i", "n", "g", "]">>>>,
    <<<<"U+1F4B0">>, <<"[", "M", "o", "n", "e", "y", "]">>>>,
    <<<<"U+1F504">>, <<"[", "A", "n", "t", "i", "c", "l", "o", "c", "k", "w", "i", "s", "e", " ", "D", "o", "w", "n", "w", "a", "r", "d", "s", " ", "a", "n", "d", " ", "U", "p", "w", "a", "r", "d", "s", " ", "O", "p", "e", "n", " ", "C", "i", "r", "c", "l", "e", " ", "A", "r", "r", "o", "w", "s", "]">>>>,
    <<<<"U+1F5A5", "U+FE0F">>, <<"[", "C", "o", "m", "p", "u", "t", "e", "r", "]">>>>,
    <<<<"U+1F5B1", "U+FE0F">>, <<"[", "M", "o", "u", "s", "e", "]">>>>,
    <<<<"U+1F5C2", "U+FE0F">>, <<"[", "F", "o", "l", "d", "e", "r", "]">>>>,
    <<<<"U+1F5D2", "U+FE0F">>, <<"[", "N", "o", "t", "e", "p", "a", "d", "]">>>>,
    <<<<"U+1F5D3", "U+FE0F">>, <<"[", "C", "a", "l", "e", "n", "d", "a", "r", "]">>>>,
    <<<<"U+1F60A">>, <<"[", "S", "m", "i", "l", "e", "]">>>>,
    <<<<"U+1F603">>, <<"[", "H", "a", "p", "p", "y", "]">>>>,
    <<<<"U+1F60E">>, <<"[", "C", "o", "o", "l", "]">>>>,
    <<<<"U+1F64F">>, <<"[", "T", "h", "a", "n", "k", "s", "]">>>>,
    <<<<"U+1F44D">>, <<"[", "T", "h", "u", "m", "b", "s", " ", "U", "p", "]">>>>,
    <<<<"U+1F44E">>, <<"[", "T", "h", "u", "m", "b", "s", " ", "D", "o", "w", "n", "]">>>>,
    <<<<"U+1F44F">>, <<"[", "C", "l", "a", "p", "]">>>>,
    <<<<"U+1F4A1">>, <<"[", "I", "d", "e", "a", "]">>>>,
    <<<<"U+1F4BB">>, <<"[", "L", "a", "p", "t", "o", "p", "]">>>>,
    <<<<"U+1F4BE">>, <<"[", "S", "a", "v", "e", "]">>>>,
    <<<<"U+1F4C1">>, <<"[", "F", "o", "l", "d", "e", "r", "]">>>>,
    <<<<"U+1F4C2">>, <<"[", "O", "p", "e", "n", " ", "F", "o", "l", "d", "e", "r", "]">>>>,
    <<<<"U+1F4C5">>, <<"[", "C", "a", "l", "e", "n", "d", "a", "r", "]">>>>,
    <<<<"U+1F4C6">>, <<"[", "T", "e", "a", "r", "-", "o", "f", "f", " ", "C", "a", "l", "e", "n", "d", "a", "r", "]">>>>,
    <<<<"U+1F4CE">>, <<"[", "P", "a", "p", "e", "r", "c", "l", "i", "p", "]">>>>,
    <<<<"U+1F4CF">>, <<"[", "R", "u", "l", "e", "r", "]">>>>,
    <<<<"U+1F4D0">>, <<"[", "T", "r", "i", "a", "n", "g", "u", "l", "a", "r", " ", "R", "u", "l", "e", "r", "]">>>>,
    <<<<"U+1F4D2">>, <<"[", "L", "e", "d", "g", "e", "r", "]">>>>,
    <<<<"U+1F4D3">>, <<"[", "N", "o", "t", "e", "b", "o", "o", "k", "]">>>>,
    <<<<"U+1F4D4">>, <<"[", "N", "o", "t", "e", "b", "o", "o", "k", " ", "w", "i", "t", "h", " ", "D", "e", "c", "o", "r", "a", "t", "i", "v", "e", " ", "C", "o", "v", "e", "r", "]">>>>,
    <<<<"U+1F4D5">>, <<"[", "C", "l", "o", "s", "e", "d", " ", "B", "o", "o", "k", "]">>>>,
    <<<<"U+1F4D7">>, <<"[", "G", "r", "e", "e", "n", " ", "B", "o", "o", "k", "]">>>>,
    <<<<"U+1F4D8">>, <<"[", "B", "l", "u", "e", " ", "B", "o", "o", "k", "]">>>>,
    <<<<"U+1F4D9">>, <<"[", "O", "r", "a", "n", "g", "e", " ", "B", "o", "o", "k", "]">>>>,
    <<<<"U+1F4DA">>, <<"[", "B", "o", "o", "k", "s", "]">>>>,
    <<<<"U+1F4DB">>, <<"[", "N", "a", "m", "e", " ", "B", "a", "d", "g", "e", "]">>>>,
    <<<<"U+1F4DC">>, <<"[", "S", "c", "r", "o", "l", "l", "]">>>>,
    <<<<"U+1F4DE">>, <<"[", "T", "e", "l", "e", "p", "h", "o", "n", "e", " ", "R", "e", "c", "e", "i", "v", "e", "r", "]">>>>,
    <<<<"U+1F4DF">>, <<"[", "P", "a", "g", "e", "r", "]">>>>,
    <<<<"U+1F4E0">>, <<"[", "F", "a", "x", " ", "M", "a", "c", "h", "i", "n", "e", "]">>>>,
    <<<<"U+1F4E1">>, <<"[", "S", "a", "t", "e", "l", "l", "i", "t", "e", " ", "A", "n", "t", "e", "n", "n", "a", "]">>>>,
    <<<<"U+1F4E2">>, <<"[", "L", "o", "u", "d", "s", "p", "e", "a", "k", "e", "r", "]">>>>,
    <<<<"U+1F4E3">>, <<"[", "M", "e", "g", "a", "p", "h", "o", "n", "e", "]">>>>,
    <<<<"U+1F4E4">>, <<"[", "O", "u", "t", "b", "o", "x", " ", "T", "r", "a", "y", "]">>>>,
    <<<<"U+1F4E5">>, <<"[", "I", "n", "b", "o", "x", " ", "T", "r", "a", "y", "]">>>>,
    <<<<"U+1F4E6">>, <<"[", "P", "a", "c", "k", "a", "g", "e", "]">>>>,
    <<<<"U+1F4E7">>, <<"[", "E", "-", "m", "a", "i", "l", "]">>>>,
    <<<<"U+1F4E8">>, <<"[", "I", "n", "c", "o", "m", "i", "n", "g", " ", "E", "n", "v", "e", "l", "o", "p", "e", "]">>>>,
    <<<<"U+1F4E9">>, <<"[", "E", "n", "v", "e", "l", "o", "p", "e", " ", "w", "i", "t", "h", " ", "A", "r", "r", "o", "w", "]">>>>,
    <<<<"U+1F4EA">>, <<"[", "C", "l", "o", "s", "e", "d", " ", "M", "a", "i", "l", "b", "o", "x", " ", "w", "i", "t", "h", " ", "L", "o", "w", "e", "r", "e", "d", " ", "F", "l", "a", "g", "]">>>>,
    <<<<"U+1F4EB">>, <<"[", "C", "l", "o", "s", "e", "d", " ", "M", "a", "i", "l", "b", "o", "x", " ", "w", "i", "t", "h", " ", "R", "a", "i", "s", "e", "d", " ", "F", "l", "a", "g", "]">>>>,
    <<<<"U+1F4EC">>, <<"[", "O", "p", "e", "n", " ", "M", "a", "i", "l", "b", "o", "x", " ", "w", "i", "t", "h", " ", "R", "a", "i", "s", "e", "d", " ", "F", "l", "a", "g", "]">>>>,
    <<<<"U+1F4ED">>, <<"[", "O", "p", "e", "n", " ", "M", "a", "i", "l", "b", "o", "x", " ", "w", "i", "t", "h", " ", "L", "o", "w", "e", "r", "e", "d", " ", "F", "l", "a", "g", "]">>>>,
    <<<<"U+1F4EE">>, <<"[", "P", "o", "s", "t", "b", "o", "x", "]">>>>,
    <<<<"U+1F4EF">>, <<"[", "P", "o", "s", "t", "a", "l", " ", "H", "o", "r", "n", "]">>>>,
    <<<<"U+1F4F0">>, <<"[", "N", "e", "w", "s", "p", "a", "p", "e", "r", "]">>>>,
    <<<<"U+1F4F1">>, <<"[", "M", "o", "b", "i", "l", "e", " ", "P", "h", "o", "n", "e", "]">>>>,
    <<<<"U+1F4F2">>, <<"[", "M", "o", "b", "i", "l", "e", " ", "P", "h", "o", "n", "e", " ", "w", "i", "t", "h", " ", "R", "i", "g", "h", "t", "w", "a", "r", "d", "s", " ", "A", "r", "r", "o", "w", " ", "a", "t", " ", "L", "e", "f", "t", "]">>>>,
    <<<<"U+1F4F3">>, <<"[", "V", "i", "b", "r", "a", "t", "i", "o", "n", " ", "M", "o", "d", "e", "]">>>>,
    <<<<"U+1F4F4">>, <<"[", "M", "o", "b", "i", "l", "e", " ", "P", "h", "o", "n", "e", " ", "O", "f", "f", "]">>>>,
    <<<<"U+1F4F6">>, <<"[", "A", "n", "t", "e", "n", "n", "a", " ", "w", "i", "t", "h", " ", "B", "a", "r", "s", "]">>>>,
    <<<<"U+1F4F7">>, <<"[", "C", "a", "m", "e", "r", "a", "]">>>>,
    <<<<"U+1F4F8">>, <<"[", "C", "a", "m", "e", "r", "a", " ", "w", "i", "t", "h", " ", "F", "l", "a", "s", "h", "]">>>>,
    <<<<"U+1F4F9">>, <<"[", "V", "i", "d", "e", "o", " ", "C", "a", "m", "e", "r", "a", "]">>>>,
    <<<<"U+1F4FA">>, <<"[", "T", "e", "l", "e", "v", "i", "s", "i", "o", "n", "]">>>>,
    <<<<"U+1F4FB">>, <<"[", "R", "a", "d", "i", "o", "]">>>>,
    <<<<"U+1F4FC">>, <<"[", "V", "i", "d", "e", "o", "c", "a", "s", "s", "e", "t", "t", "e", "]">>>>,
    <<<<"U+1F4FD", "U+FE0F">>, <<"[", "F", "i", "l", "m", " ", "P", "r", "o", "j", "e", "c", "t", "o", "r", "]">>>>,
    <<<<"U+1F4FF">>, <<"[", "P", "r", "a", "y", "e", "r", " ", "B", "e", "a", "d", "s", "]">>>>,
    <<<<"U+1F500">>, <<"[", "T", "w", "i", "s", "t", "e", "d", " ", "R", "i", "g", "h", "t", "w", "a", "r", "d", "s", " ", "A", "r", "r", "o", "w", "s", "]">>>>,
    <<<<"U+1F501">>, <<"[", "C", "l", "o", "c", "k", "w", "i", "s", "e", " ", "R", "i", "g", "h", "t", "w", "a", "r", "d", "s", " ", "a", "n", "d", " ", "L", "e", "f", "t", "w", "a", "r", "d", "s", " ", "O", "p", "e", "n", " ", "C", "i", "r", "c", "l", "e", " ", "A", "r", "r", "o", "w", "s", "]">>>>,
    <<<<"U+1F502">>, <<"[", "C", "l", "o", "c", "k", "w", "i", "s", "e", " ", "R", "i", "g", "h", "t", "w", "a", "r", "d", "s", " ", "a", "n", "d", " ", "L", "e", "f", "t", "w", "a", "r", "d", "s", " ", "O", "p", "e", "n", " ", "C", "i", "r", "c", "l", "e", " ", "A", "r", "r", "o", "w", "s", " ", "w", "i", "t", "h", " ", "C", "i", "r", "c", "l", "e", "d", " ", "O", "n", "e", " ", "O", "v", "e", "r", "l", "a", "y", "]">>>>,
    <<<<"U+1F503">>, <<"[", "C", "l", "o", "c", "k", "w", "i", "s", "e", " ", "D", "o", "w", "n", "w", "a", "r", "d", "s", " ", "a", "n", "d", " ", "U", "p", "w", "a", "r", "d", "s", " ", "O", "p", "e", "n", " ", "C", "i", "r", "c", "l", "e", " ", "A", "r", "r", "o", "w", "s", "]">>>>,
    <<<<"U+1F505">>, <<"[", "L", "o", "w", " ", "B", "r", "i", "g", "h", "t", "n", "e", "s", "s", " ", "S", "y", "m", "b", "o", "l", "]">>>>,
    <<<<"U+1F506">>, <<"[", "H", "i", "g", "h", " ", "B", "r", "i", "g", "h", "t", "n", "e", "s", "s", " ", "S", "y", "m", "b", "o", "l", "]">>>>,
    <<<<"U+1F507">>, <<"[", "S", "p", "e", "a", "k", "e", "r", " ", "w", "i", "t", "h", " ", "C", "a", "n", "c", "e", "l", "l", "a", "t", "i", "o", "n", " ", "S", "t", "r", "o", "k", "e", "]">>>>,
    <<<<"U+1F508">>, <<"[", "S", "p", "e", "a", "k", "e", "r", "]">>>>,
    <<<<"U+1F509">>, <<"[", "S", "p", "e", "a", "k", "e", "r", " ", "w", "i", "t", "h", " ", "O", "n", "e", " ", "S", "o", "u", "n", "d", " ", "W", "a", "v", "e", "]">>>>,
    <<<<"U+1F50A">>, <<"[", "S", "p", "e", "a", "k", "e", "r", " ", "w", "i", "t", "h", " ", "T", "h", "r", "e", "e", " ", "S", "o", "u", "n", "d", " ", "W", "a", "v", "e", "s", "]">>>>,
    <<<<"U+1F50B">>, <<"[", "B", "a", "t", "t", "e", "r", "y", "]">>>>,
    <<<<"U+1F50C">>, <<"[", "E", "l", "e", "c", "t", "r", "i", "c", " ", "P", "l", "u", "g", "]">>>>,
    <<<<"U+1F50F">>, <<"[", "L", "o", "c", "k", " ", "w", "i", "t", "h", " ", "I", "n", "k", " ", "P", "e", "n", "]">>>>,
    <<<<"U+1F510">>, <<"[", "C", "l", "o", "s", "e", "d", " ", "L", "o", "c", "k", " ", "w", "i", "t", "h", " ", "K", "e", "y", "]">>>>,
    <<<<"U+1F512">>, <<"[", "L", "o", "c", "k", "]">>>>,
    <<<<"U+1F513">>, <<"[", "O", "p", "e", "n", " ", "L", "o", "c", "k", "]">>>>,
    <<<<"U+1F515">>, <<"[", "B", "e", "l", "l", " ", "w", "i", "t", "h", " ", "C", "a", "n", "c", "e", "l", "l", "a", "t", "i", "o", "n", " ", "S", "t", "r", "o", "k", "e", "]">>>>,
    <<<<"U+1F516">>, <<"[", "B", "o", "o", "k", "m", "a", "r", "k", "]">>>>,
    <<<<"U+1F517">>, <<"[", "L", "i", "n", "k", " ", "S", "y", "m", "b", "o", "l", "]">>>>,
    <<<<"U+1F518">>, <<"[", "R", "a", "d", "i", "o", " ", "B", "u", "t", "t", "o", "n", "]">>>>,
    <<<<"U+1F519">>, <<"[", "B", "a", "c", "k", " ", "w", "i", "t", "h", " ", "L", "e", "f", "t", "w", "a", "r", "d", "s", " ", "A", "r", "r", "o", "w", " ", "A", "b", "o", "v", "e", "]">>>>,
    <<<<"U+1F51A">>, <<"[", "E", "n", "d", " ", "w", "i", "t", "h", " ", "L", "e", "f", "t", "w", "a", "r", "d", "s", " ", "A", "r", "r", "o", "w", " ", "A", "b", "o", "v", "e", "]">>>>,
    <<<<"U+1F51B">>, <<"[", "O", "n", " ", "w", "i", "t", "h", " ", "E", "x", "c", "l", "a", "m", "a", "t", "i", "o", "n", " ", "M", "a", "r", "k", " ", "w", "i", "t", "h", " ", "L", "e", "f", "t", " ", "R", "i", "g", "h", "t", " ", "A", "r", "r", "o", "w", " ", "A", "b", "o", "v", "e", "]">>>>,
    <<<<"U+1F51C">>, <<"[", "S", "o", "o", "n", " ", "w", "i", "t", "h", " ", "R", "i", "g", "h", "t", "w", "a", "r", "d", "s", " ", "A", "r", "r", "o", "w", " ", "A", "b", "o", "v", "e", "]">>>>,
    <<<<"U+1F51D">>, <<"[", "T", "o", "p", " ", "w", "i", "t", "h", " ", "U", "p", "w", "a", "r", "d", "s", " ", "A", "r", "r", "o", "w", " ", "A", "b", "o", "v", "e", "]">>>>,
    <<<<"U+1F51E">>, <<"[", "N", "o", " ", "O", "n", "e", " ", "U", "n", "d", "e", "r", " ", "E", "i", "g", "h", "t", "e", "e", "n", " ", "S", "y", "m", "b", "o", "l", "]">>>>,
    <<<<"U+1F51F">>, <<"[", "K", "e", "y", "c", "a", "p", " ", "T", "e", "n", "]">>>>,
    <<<<"U+1F520">>, <<"[", "I", "n", "p", "u", "t", " ", "S", "y", "m", "b", "o", "l", " ", "f", "o", "r", " ", "L", "a", "t", "i", "n", " ", "C", "a", "p", "i", "t", "a", "l", " ", "L", "e", "t", "t", "e", "r", "s", "]">>>>,
    <<<<"U+1F521">>, <<"[", "I", "n", "p", "u", "t", " ", "S", "y", "m", "b", "o", "l", " ", "f", "o", "r", " ", "L", "a", "t", "i", "n", " ", "S", "m", "a", "l", "l", " ", "L", "e", "t", "t", "e", "r", "s", "]">>>>,
    <<<<"U+1F522">>, <<"[", "I", "n", "p", "u", "t", " ", "S", "y", "m", "b", "o", "l", " ", "f", "o", "r", " ", "N", "u", "m", "b", "e", "r", "s", "]">>>>,
    <<<<"U+1F523">>, <<"[", "I", "n", "p", "u", "t", " ", "S", "y", "m", "b", "o", "l", " ", "f", "o", "r", " ", "S", "y", "m", "b", "o", "l", "s", "]">>>>,
    <<<<"U+1F524">>, <<"[", "I", "n", "p", "u", "t", " ", "S", "y", "m", "b", "o", "l", " ", "f", "o", "r", " ", "L", "a", "t", "i", "n", " ", "L", "e", "t", "t", "e", "r", "s", "]">>>>,
    <<<<"U+1F526">>, <<"[", "E", "l", "e", "c", "t", "r", "i", "c", " ", "T", "o", "r", "c", "h", "]">>>>,
    <<<<"U+1F527">>, <<"[", "W", "r", "e", "n", "c", "h", "]">>>>,
    <<<<"U+1F528">>, <<"[", "H", "a", "m", "m", "e", "r", "]">>>>,
    <<<<"U+1F529">>, <<"[", "N", "u", "t", " ", "a", "n", "d", " ", "B", "o", "l", "t", "]">>>>,
    <<<<"U+1F52A">>, <<"[", "H", "o", "c", "h", "o", "]">>>>,
    <<<<"U+1F52B">>, <<"[", "P", "i", "s", "t", "o", "l", "]">>>>,
    <<<<"U+1F52C">>, <<"[", "M", "i", "c", "r", "o", "s", "c", "o", "p", "e", "]">>>>,
    <<<<"U+1F52D">>, <<"[", "T", "e", "l", "e", "s", "c", "o", "p", "e", "]">>>>,
    <<<<"U+1F52E">>, <<"[", "C", "r", "y", "s", "t", "a", "l", " ", "B", "a", "l", "l", "]">>>>,
    <<<<"U+1F52F">>, <<"[", "S", "i", "x", " ", "P", "o", "i", "n", "t", "e", "d", " ", "S", "t", "a", "r", " ", "w", "i", "t", "h", " ", "M", "i", "d", "d", "l", "e", " ", "D", "o", "t", "]">>>>,
    <<<<"U+1F530">>, <<"[", "J", "a", "p", "a", "n", "e", "s", "e", " ", "S", "y", "m", "b", "o", "l", " ", "f", "o", "r", " ", "B", "e", "g", "i", "n", "n", "e", "r", "]">>>>,
    <<<<"U+1F531">>, <<"[", "T", "r", "i", "d", "e", "n", "t", " ", "E", "m", "b", "l", "e", "m", "]">>>>,
    <<<<"U+1F532">>, <<"[", "B", "l", "a", "c", "k", " ", "S", "q", "u", "a", "r", "e", " ", "B", "u", "t", "t", "o", "n", "]">>>>,
    <<<<"U+1F533">>, <<"[", "W", "h", "i", "t", "e", " ", "S", "q", "u", "a", "r", "e", " ", "B", "u", "t", "t", "o", "n", "]">>>>,
    <<<<"U+1F534">>, <<"[", "L", "a", "r", "g", "e", " ", "R", "e", "d", " ", "C", "i", "r", "c", "l", "e", "]">>>>,
    <<<<"U+1F535">>, <<"[", "L", "a", "r", "g", "e", " ", "B", "l", "u", "e", " ", "C", "i", "r", "c", "l", "e", "]">>>>,
    <<<<"U+1F536">>, <<"[", "L", "a", "r", "g", "e", " ", "O", "r", "a", "n", "g", "e", " ", "D", "i", "a", "m", "o", "n", "d", "]">>>>,
    <<<<"U+1F537">>, <<"[", "L", "a", "r", "g", "e", " ", "B", "l", "u", "e", " ", "D", "i", "a", "m", "o", "n", "d", "]">>>>,
    <<<<"U+1F538">>, <<"[", "S", "m", "a", "l", "l", " ", "O", "r", "a", "n", "g", "e", " ", "D", "i", "a", "m", "o", "n", "d", "]">>>>,
    <<<<"U+1F539">>, <<"[", "S", "m", "a", "l", "l", " ", "B", "l", "u", "e", " ", "D", "i", "a", "m", "o", "n", "d", "]">>>>,
    <<<<"U+1F53A">>, <<"[", "U", "p", "-", "P", "o", "i", "n", "t", "i", "n", "g", " ", "R", "e", "d", " ", "T", "r", "i", "a", "n", "g", "l", "e", "]">>>>,
    <<<<"U+1F53B">>, <<"[", "D", "o", "w", "n", "-", "P", "o", "i", "n", "t", "i", "n", "g", " ", "R", "e", "d", " ", "T", "r", "i", "a", "n", "g", "l", "e", "]">>>>,
    <<<<"U+1F53C">>, <<"[", "U", "p", "-", "P", "o", "i", "n", "t", "i", "n", "g", " ", "S", "m", "a", "l", "l", " ", "R", "e", "d", " ", "T", "r", "i", "a", "n", "g", "l", "e", "]">>>>,
    <<<<"U+1F53D">>, <<"[", "D", "o", "w", "n", "-", "P", "o", "i", "n", "t", "i", "n", "g", " ", "S", "m", "a", "l", "l", " ", "R", "e", "d", " ", "T", "r", "i", "a", "n", "g", "l", "e", "]">>>>,
    <<<<"U+1F549", "U+FE0F">>, <<"[", "O", "m", " ", "S", "y", "m", "b", "o", "l", "]">>>>,
    <<<<"U+1F54A", "U+FE0F">>, <<"[", "D", "o", "v", "e", " ", "o", "f", " ", "P", "e", "a", "c", "e", "]">>>>,
    <<<<"U+1F54B">>, <<"[", "K", "a", "a", "b", "a", "]">>>>,
    <<<<"U+1F54C">>, <<"[", "M", "o", "s", "q", "u", "e", "]">>>>,
    <<<<"U+1F54D">>, <<"[", "S", "y", "n", "a", "g", "o", "g", "u", "e", "]">>>>,
    <<<<"U+1F54E">>, <<"[", "M", "e", "n", "o", "r", "a", "h", " ", "w", "i", "t", "h", " ", "N", "i", "n", "e", " ", "B", "r", "a", "n", "c", "h", "e", "s", "]">>>>,
    <<<<"U+1F550">>, <<"[", "C", "l", "o", "c", "k", " ", "F", "a", "c", "e", " ", "O", "n", "e", " ", "O", "c", "l", "o", "c", "k", "]">>>>,
    <<<<"U+1F551">>, <<"[", "C", "l", "o", "c", "k", " ", "F", "a", "c", "e", " ", "T", "w", "o", " ", "O", "c", "l", "o", "c", "k", "]">>>>,
    <<<<"U+1F552">>, <<"[", "C", "l", "o", "c", "k", " ", "F", "a", "c", "e", " ", "T", "h", "r", "e", "e", " ", "O", "c", "l", "o", "c", "k", "]">>>>,
    <<<<"U+1F553">>, <<"[", "C", "l", "o", "c", "k", " ", "F", "a", "c", "e", " ", "F", "o", "u", "r", " ", "O", "c", "l", "o", "c", "k", "]">>>>,
    <<<<"U+1F554">>, <<"[", "C", "l", "o", "c", "k", " ", "F", "a", "c", "e", " ", "F", "i", "v", "e", " ", "O", "c", "l", "o", "c", "k", "]">>>>,
    <<<<"U+1F555">>, <<"[", "C", "l", "o", "c", "k", " ", "F", "a", "c", "e", " ", "S", "i", "x", " ", "O", "c", "l", "o", "c", "k", "]">>>>,
    <<<<"U+1F556">>, <<"[", "C", "l", "o", "c", "k", " ", "F", "a", "c", "e", " ", "S", "e", "v", "e", "n", " ", "O", "c", "l", "o", "c", "k", "]">>>>,
    <<<<"U+1F557">>, <<"[", "C", "l", "o", "c", "k", " ", "F", "a", "c", "e", " ", "E", "i", "g", "h", "t", " ", "O", "c", "l", "o", "c", "k", "]">>>>,
    <<<<"U+1F558">>, <<"[", "C", "l", "o", "c", "k", " ", "F", "a", "c", "e", " ", "N", "i", "n", "e", " ", "O", "c", "l", "o", "c", "k", "]">>>>,
    <<<<"U+1F559">>, <<"[", "C", "l", "o", "c", "k", " ", "F", "a", "c", "e", " ", "T", "e", "n", " ", "O", "c", "l", "o", "c", "k", "]">>>>,
    <<<<"U+1F55A">>, <<"[", "C", "l", "o", "c", "k", " ", "F", "a", "c", "e", " ", "E", "l", "e", "v", "e", "n", " ", "O", "c", "l", "o", "c", "k", "]">>>>,
    <<<<"U+1F55B">>, <<"[", "C", "l", "o", "c", "k", " ", "F", "a", "c", "e", " ", "T", "w", "e", "l", "v", "e", " ", "O", "c", "l", "o", "c", "k", "]">>>>,
    <<<<"U+1F55C">>, <<"[", "C", "l", "o", "c", "k", " ", "F", "a", "c", "e", " ", "O", "n", "e", "-", "T", "h", "i", "r", "t", "y", "]">>>>,
    <<<<"U+1F55D">>, <<"[", "C", "l", "o", "c", "k", " ", "F", "a", "c", "e", " ", "T", "w", "o", "-", "T", "h", "i", "r", "t", "y", "]">>>>,
    <<<<"U+1F55E">>, <<"[", "C", "l", "o", "c", "k", " ", "F", "a", "c", "e", " ", "T", "h", "r", "e", "e", "-", "T", "h", "i", "r", "t", "y", "]">>>>,
    <<<<"U+1F55F">>, <<"[", "C", "l", "o", "c", "k", " ", "F", "a", "c", "e", " ", "F", "o", "u", "r", "-", "T", "h", "i", "r", "t", "y", "]">>>>,
    <<<<"U+1F560">>, <<"[", "C", "l", "o", "c", "k", " ", "F", "a", "c", "e", " ", "F", "i", "v", "e", "-", "T", "h", "i", "r", "t", "y", "]">>>>,
    <<<<"U+1F561">>, <<"[", "C", "l", "o", "c", "k", " ", "F", "a", "c", "e", " ", "S", "i", "x", "-", "T", "h", "i", "r", "t", "y", "]">>>>,
    <<<<"U+1F562">>, <<"[", "C", "l", "o", "c", "k", " ", "F", "a", "c", "e", " ", "S", "e", "v", "e", "n", "-", "T", "h", "i", "r", "t", "y", "]">>>>,
    <<<<"U+1F563">>, <<"[", "C", "l", "o", "c", "k", " ", "F", "a", "c", "e", " ", "E", "i", "g", "h", "t", "-", "T", "h", "i", "r", "t", "y", "]">>>>,
    <<<<"U+1F564">>, <<"[", "C", "l", "o", "c", "k", " ", "F", "a", "c", "e", " ", "N", "i", "n", "e", "-", "T", "h", "i", "r", "t", "y", "]">>>>,
    <<<<"U+1F565">>, <<"[", "C", "l", "o", "c", "k", " ", "F", "a", "c", "e", " ", "T", "e", "n", "-", "T", "h", "i", "r", "t", "y", "]">>>>,
    <<<<"U+1F566">>, <<"[", "C", "l", "o", "c", "k", " ", "F", "a", "c", "e", " ", "E", "l", "e", "v", "e", "n", "-", "T", "h", "i", "r", "t", "y", "]">>>>,
    <<<<"U+1F567">>, <<"[", "C", "l", "o", "c", "k", " ", "F", "a", "c", "e", " ", "T", "w", "e", "l", "v", "e", "-", "T", "h", "i", "r", "t", "y", "]">>>>
  >>

\* a character that text.encode('ascii') accepts
IsAscii(c) == Len(c) = 1

\* the ASCII characters str.strip() removes (vertical tab and the separators
\* 0x1c..0x1f have no TLA+ escape and are not drawn as inputs)
Whitespace == {" ", "\t", "\n", "\r", "\f"}

\* str.replace(orig, repl): every non-overlapping occurrence, left to right:
\* the text before the first occurrence, the replacement, and the rest of
\* the text replaced in the same way
RECURSIVE str_replace(_, _, _)
str_replace(text, orig, repl) ==
  LET n == Len(orig)
      hits == {k \in 1..(Len(text) - n + 1) :
                 text[k] = orig[1] /\ SubSeq(text, k, k + n - 1) = orig}
  IN  IF hits = {} THEN text
      ELSE LET p == CHOOSE x \in hits : \A y \in hits : x <= y
           IN  SubSeq(text, 1, p - 1) \o repl
                 \o str_replace(SubSeq(text, p + n, Len(text)), orig, repl)

\* for orig, repl in table.items(): text = text.replace(orig, repl)
\* applied to the entries lo..hi of the table in order (the entries of the
\* first half, then those of the second half)
RECURSIVE replace_pass(_, _, _, _)
replace_pass(text, table, lo, hi) ==
  IF lo > hi THEN text
  ELSE IF lo = hi THEN str_replace(text, table[lo][1], table[lo][2])
  ELSE LET mid == (lo + hi) \div 2
           first == replace_pass(text, table, lo, mid)
       IN  \* Len(first) >= 0 is always true: it has the first half computed
           \* before the second half starts
           IF Len(first) >= 0 THEN replace_pass(first, table, mid + 1, hi)
           ELSE first

\* a mutation of ascii_ignore: the characters ASCII cannot encode are kept
ascii_ignore_keep(text) == text

\* text.encode('ascii', 'ignore').decode('ascii'); the try of line 243 leaves
\* an all-ASCII text as it is, which is what dropping nothing does
ascii_ignore(text) == SelectSeq(text, IsAscii)

RECURSIVE lstrip(_)
lstrip(text) ==
  IF text # <<>> /\ Head(text) \in Whitespace THEN lstrip(Tail(text)) ELSE text

RECURSIVE rstrip(_)
rstrip(text) ==
  IF text # <<>> /\ text[Len(text)] \in Whitespace
  THEN rstrip(SubSeq(text, 1, Len(text) - 1)) ELSE text

\* str.strip()
strip(text) == rstrip(lstrip(text))

\* a mutation of clean_text: the text is stripped before the replacements
\* instead of after them
clean_text_strip_first(text) ==
  IF ~Truthy(text) THEN Str(<<>>)
  ELSE Str(ascii_ignore(
         replace_pass(replace_pass(strip(text.s), replacements, 1, Len(replacements)),
                      emoji_replacements, 1, Len(emoji_replacements))))

\* clean_text(text): a Python value in, a string out
clean_text(text) ==
  IF ~Truthy(text) THEN Str(<<>>)
  ELSE Str(strip(ascii_ignore(
         replace_pass(replace_pass(text.s, replacements, 1, Len(replacements)),
                      emoji_replacements, 1, Len(emoji_replacements)))))

(***************************************************************************)
(* extract_video_id                                                        *)
(***************************************************************************)
\* the character class [0-9A-Za-z_-] of the regular expression
IdChars ==
  {"0", "1", "2", "3", "4", "5", "6", "7", "8", "9",
   "A", "B", "C", "D", "E", "F", "G", "H", "I", "J", "K", "L", "M",
   "N", "O", "P", "Q", "R", "S", "T", "U", "V", "W", "X", "Y", "Z",
   "a", "b", "c", "d", "e", "f", "g", "h", "i", "j", "k", "l", "m",
   "n", "o", "p", "q", "r", "s", "t", "u", "v", "w", "x", "y", "z",
   "_", "-"}

\* the repetition count {11} of the regular expression
IdLen == 11

\* ([0-9A-Za-z_-]{11}) matches the characters q .. q+10 of s
IdRunAt(s, q) ==
  /\ q >= 1
  /\ q + IdLen - 1 <= Len(s)
  /\ \A k \in q..(q + IdLen - 1) : s[k] \in IdChars

\* a mutation of MatchAt: the alternative \/ of the prefix group is lost
MatchAt_only_v(s, p) ==
  IF p + 1 <= Len(s) /\ s[p] = "v" /\ s[p + 1] = "=" /\ IdRunAt(s, p + 2)
  THEN p + 2
  ELSE 0

\* the regular expression tried at position p of s: where group 1 starts when
\* (?:v=|\/)([0-9A-Za-z_-]{11}).* matches there, 0 when it does not (the
\* trailing .* matches any rest, the empty one included)
MatchAt(s, p) ==
  IF p + 1 <= Len(s) /\ s[p] = "v" /\ s[p + 1] = "=" /\ IdRunAt(s, p + 2)
  THEN p + 2
  ELSE IF s[p] = "/" /\ IdRunAt(s, p + 1) THEN p + 1
  ELSE 0

\* re.search: the match at the leftmost position that has one
extract_video_id(u) ==
  LET starts == {p \in 1..Len(u.s) : MatchAt(u.s, p) # 0}
  IN  IF starts = {} THEN None
      ELSE LET p == CHOOSE x \in starts : \A y \in starts : x <= y
               g == MatchAt(u.s, p)
           IN  Str(SubSeq(u.s, g, g + IdLen - 1))

(***************************************************************************)
(* Inputs of the single-video tab                                          *)
(***************************************************************************)
\* two videos of the hosting service
IdA == [k \in 1..IdLen |-> "A"]

IdB == [k \in 1..IdLen |-> "B"]

WatchUrl(id) == <<"w", "a", "t", "c", "h", "?", "v", "=">> \o id

ShortUrl(id) == <<"y", "o", "u", "t", "u", ".", "b", "e", "/">> \o id

\* what the user can type into st.text_input: nothing, a text with no
\* identifier, two spellings of video A, and video B
Urls ==
  { Str(<<>>),
    Str(<<"n", "o", "t", " ", "a", " ", "u", "r", "l">>),
    Str(WatchUrl(IdA)), Str(ShortUrl(IdA)), Str(WatchUrl(IdB)) }

\* number of words of the long transcript
LongWords == 500

\* a transcript of LongWords one-letter words
LongTranscript ==
  [k \in 1..(2 * LongWords - 1) |-> IF k % 2 = 1 THEN "a" ELSE " "]

\* what Whisper can return as result["text"]
RawTranscripts ==
  { <<" ", "h", "i", "U+2026">>, <<"U+03BB">>, LongTranscript }

\* what the chat completion can return as message.content
RawSummaries == { <<"o", "k", "U+00E9">>, <<" ">> }

\* a name the script has not bound in this rerun
Unbound == [py |-> "unbound"]

\* number of script reruns explored
MaxRuns == 4

\* a call that raises instead of returning
Raises == [py |-> "raise"]

\* an exception that ends the script run
Raised(type) == [py |-> "exception", type |-> type]

(***************************************************************************)
(* State                                                                   *)
(***************************************************************************)
VARIABLES
  \* st.session_state of the single-video tab
  pdf_path, transcription, summary, video_details,
  \* widgets: the text input's value, the button's return value in this
  \* rerun, and whether the last rerun drew the button
  url, clicked, button_rendered,
  \* the script: its position and its local names
  pc, video_id, local_details, audio_path,
  \* the temporary audio files and directories this rerun has created and
  \* that still exist (those of earlier reruns stay where they are: no
  \* statement of the script names them again), and the properties of the
  \* audio file this rerun's download produced
  files, dirs, artifact,
  \* what this rerun did: its number, the stage functions it called, the
  \* st.error messages it emitted, what the results block displayed and the
  \* exception that ended it
  run, calls, errors, shown, exception,
  \* the texts this rerun sent to the chat completion service
  requests

tab1vars ==
  <<pdf_path, transcription, summary, video_details, url, clicked,
    button_rendered, pc, video_id, local_details, audio_path, files, dirs,
    artifact, run, calls, errors, shown, exception, requests>>

VARIABLES
  \* what the top of the script binds: os.getenv("YOUTUBE_API_KEY"),
  \* os.getenv("OPENAI_API_KEY") and the value of load_whisper_model()
  youtube_key, openai_key, model

cfgvars == <<youtube_key, openai_key, model>>

\* a key that is set, a model that is loaded
Present == [py |-> "object"]

\* every key is set and the model is loaded
ConfigComplete ==
  youtube_key = Present /\ openai_key = Present /\ model = Present

\* os.getenv returns None for a variable that is not set, and
\* load_whisper_model returns None when loading fails
ConfigInit ==
  /\ youtube_key \in {None, Present}
  /\ openai_key \in {None, Present}
  /\ model \in {None, Present}

\* what a call through a service handle can do: without its key, or on the
\* None model, the call raises inside the stage function's try block
ServiceOutcomes(handle, outcomes, failure) ==
  IF handle = None THEN {failure} ELSE outcomes

(***************************************************************************)
(* Stage functions of the single-video pipeline                            *)
(***************************************************************************)
\* a string the run `r` produced for the video `vid`
Tagged(v, r, vid) ==
  IF v.py = "str" THEN [py |-> "str", s |-> v.s, run |-> r, vid |-> vid] ELSE v

File(d, name) == [dir |-> d, name |-> name]

Path(d, name) == [py |-> "path", dir |-> d, name |-> name]

\* what the metadata service can answer: videos.list without an id filter is
\* rejected by the service, so a request for None raises
MetadataOutcomes(vid) ==
  IF vid = None THEN {"exception"} ELSE {"found", "not_found", "exception"}

\* get_video_details(video_id): the value returned and whether st.error ran
get_video_details(vid, outcome) ==
  CASE outcome = "found" ->
         [result |-> [py |-> "dict", title |-> vid], error |-> FALSE]
    [] outcome = "not_found" -> [result |-> None, error |-> FALSE]
    [] outcome = "exception" -> [result |-> None, error |-> TRUE]

\* st.session_state.video_details['id'] = video_id
WithId(d, vid) == [py |-> "dict", title |-> d.title, id |-> vid]

\* a mutation of NeedsFetch: the details are fetched on every rerun
NeedsFetch_always(details, vid) == TRUE

\* the condition of line 638
NeedsFetch(details, vid) == ~Truthy(details) \/ details.id # vid

\* a mutation of StoreDetails: a failed fetch keeps the cached details
StoreDetails_keep_stale(old, result, vid) ==
  IF Truthy(result) THEN WithId(result, vid) ELSE old

\* lines 640-642: the fetched value replaces the cached one, and gets the id
StoreDetails(old, result, vid) ==
  IF Truthy(result) THEN WithId(result, vid) ELSE result

DownloadOutcomes ==
  {"extract_error", "original_missing", "convert_failed", "converted_missing", "ok"}

SizeClasses == {"above_threshold", "below_threshold"}

FrameClasses == {"some_frames", "zero_frames"}

\* download_youtube_audio(url) in the fresh directory d = tempfile.mkdtemp():
\* the value returned, the files it leaves in d, whether d is left, and the
\* properties of the converted file.  `partial` says whether the failing tool
\* left a partly written file behind.
download_youtube_audio(d, outcome, partial, size, frames) ==
  CASE outcome = "extract_error" ->
         \* ydl.extract_info raises: nothing is bound but temp_dir, and
         \* os.rmdir succeeds only on an empty directory
         [result |-> None,
          left |-> IF partial THEN {File(d, "partial")} ELSE {},
          dir_left |-> partial,
          artifact |-> None]
    [] outcome = "original_missing" ->
         \* the download is there under a name prepare_filename did not
         \* predict: nothing is unlinked and os.rmdir fails
         [result |-> None,
          left |-> {File(d, "download")},
          dir_left |-> TRUE,
          artifact |-> None]
    [] outcome = "convert_failed" ->
         \* convert_to_wav returns None, os.path.exists(None) raises
         \* TypeError; the handler unlinks original_path and raises again
         \* at os.path.exists(converted_path), so os.rmdir is not reached
         [result |-> None,
          left |-> IF partial THEN {File(d, "audio.wav")} ELSE {},
          dir_left |-> TRUE,
          artifact |-> None]
    [] outcome = "converted_missing" ->
         \* the handler unlinks original_path and removes the directory
         [result |-> None, left |-> {}, dir_left |-> FALSE, artifact |-> None]
    [] outcome = "ok" ->
         [result |-> Path(d, "audio.wav"),
          left |-> {File(d, "original"), File(d, "audio.wav")},
          dir_left |-> TRUE,
          artifact |-> [size |-> size, frames |-> frames]]

\* a mutation of AfterDownload: the test of line 661 is lost
AfterDownload_no_gate(path) == "transcribe"

\* line 661: if audio_path
AfterDownload(path) == IF Truthy(path) THEN "transcribe" ELSE "results"

TranscribeOutcomes == {Raises} \cup {Str(t) : t \in RawTranscripts}

\* clean_text(result["text"]) for every text Whisper can return, computed
\* once for each text
CleanedTranscripts == [t \in {Str(r) : r \in RawTranscripts} |-> clean_text(t)]

\* transcribe_audio(audio_path): the value returned and the st.error emitted
transcribe_audio(path, existing, outcome) ==
  IF ~Truthy(path) \/ File(path.dir, path.name) \notin existing
  THEN [result |-> None, error |-> {"transcribe"}]
  ELSE IF outcome = Raises
       THEN [result |-> None, error |-> {"transcribe"}]
       ELSE [result |-> CleanedTranscripts[outcome], error |-> {}]

\* os.unlink(audio_path) inside try/except: pass
unlink(path, existing, ok) ==
  IF Truthy(path) /\ ok THEN existing \ {File(path.dir, path.name)} ELSE existing

\* line 669: if st.session_state.transcription
AfterTranscribe(t) == IF Truthy(t) THEN "summarize" ELSE "results"

SummaryOutcomes == {Raises} \cup {Str(t) : t \in RawSummaries}

\* number of whitespace-separated words of a text
WordCount(t) ==
  Cardinality({k \in 1..Len(t) :
                 t[k] \notin Whitespace /\ (k = 1 \/ t[k - 1] \in Whitespace)})

\* a mutation of generate_summary: a transcript of at most 50 words gets a
\* fixed text and the service is not asked
generate_summary_threshold(text, outcome) ==
  IF WordCount(text.s) <= 50
  THEN [result |-> Str(<<"-">>), error |-> {}, requests |-> <<>>]
  ELSE IF outcome = Raises
       THEN [result |-> None, error |-> {"summary"}, requests |-> <<text>>]
       ELSE [result |-> clean_text(outcome), error |-> {}, requests |-> <<text>>]

\* generate_summary(text): the value returned, the st.error emitted and the
\* texts sent to openai.ChatCompletion.create
generate_summary(text, outcome) ==
  IF outcome = Raises
  THEN [result |-> None, error |-> {"summary"}, requests |-> <<text>>]
  ELSE [result |-> clean_text(outcome), error |-> {}, requests |-> <<text>>]

\* line 673: if st.session_state.summary
AfterSummary(s) == IF Truthy(s) THEN "render" ELSE "results"

\* create_pdf(video_details, transcription, summary): the path of the
\* document written for these three values
create_pdf(details, t, s, r) ==
  [py |-> "path", run |-> r, vid |-> details.id, title |-> details.title,
   transcription |-> t, summary |-> s]

\* line 681: the condition of the results block
HasResults(p, t, s) == Truthy(p) /\ Truthy(t) /\ Truthy(s)

(***************************************************************************)
(* The single-video tab: one script rerun, statement by statement          *)
(***************************************************************************)
Tab1Init ==
  /\ pdf_path = None /\ transcription = None /\ summary = None
  /\ video_details = None
  /\ url = Str(<<>>) /\ clicked = FALSE /\ button_rendered = FALSE
  /\ pc = "idle"
  /\ video_id = Unbound /\ local_details = Unbound /\ audio_path = Unbound
  /\ files = {} /\ dirs = {} /\ artifact = None
  /\ run = 0 /\ calls = <<>> /\ errors = {} /\ shown = None
  /\ exception = None /\ requests = <<>>

\* A widget interaction starts a rerun: the user has left text u in the input
\* and has or has not pressed the button, which only a drawn button allows.
\* Line 632: with an empty input the tab does nothing.  A rerun starts when
\* the previous one has ended (an interaction that interrupts a running
\* script is not modelled).
Rerun(u, c) ==
  /\ pc = "idle"
  /\ run < MaxRuns
  /\ c => button_rendered
  /\ url' = u
  /\ clicked' = c
  /\ button_rendered' = FALSE
  /\ run' = run + 1
  /\ calls' = <<>> /\ shown' = None /\ exception' = None
  /\ requests' = <<>>
  /\ errors' = IF model = None THEN {"whisper_load"} ELSE {}
  /\ video_id' = Unbound /\ local_details' = Unbound /\ audio_path' = Unbound
  /\ files' = {} /\ dirs' = {} /\ artifact' = None
  /\ pc' = IF Truthy(u) THEN "identify" ELSE "idle"
  /\ UNCHANGED <<pdf_path, transcription, summary, video_details>>

\* lines 633-635
Identify ==
  /\ UNCHANGED requests
  /\ pc = "identify"
  /\ video_id' = extract_video_id(url)
  /\ errors' = IF Truthy(video_id') THEN errors ELSE errors \cup {"invalid_url"}
  /\ pc' = "metadata"
  /\ UNCHANGED <<pdf_path, transcription, summary, video_details, url,
                 clicked, button_rendered, local_details, audio_path, files,
                 dirs, artifact, run, calls, shown, exception>>

\* lines 638-642
MetadataGate ==
  /\ UNCHANGED requests
  /\ pc = "metadata"
  /\ IF NeedsFetch(video_details, video_id)
     THEN \E outcome \in ServiceOutcomes(youtube_key,
                             MetadataOutcomes(video_id), "exception") :
            LET got == get_video_details(video_id, outcome)
            IN  /\ video_details' = StoreDetails(video_details, got.result, video_id)
                /\ calls' = Append(calls, "get_video_details")
                /\ errors' = IF got.error THEN errors \cup {"metadata"} ELSE errors
     ELSE UNCHANGED <<video_details, calls, errors>>
  /\ pc' = "display"
  /\ UNCHANGED <<pdf_path, transcription, summary, url, clicked,
                 button_rendered, video_id, local_details, audio_path, files,
                 dirs, artifact, run, shown, exception>>

\* lines 644-657: the details are displayed and the button is drawn
Display ==
  /\ UNCHANGED requests
  /\ pc = "display"
  /\ IF Truthy(video_details)
     THEN /\ local_details' = video_details
          /\ button_rendered' = TRUE
          /\ pc' = IF clicked THEN "download" ELSE "results"
     ELSE /\ UNCHANGED <<local_details, button_rendered>>
          /\ pc' = "results"
  /\ UNCHANGED <<pdf_path, transcription, summary, video_details, url,
                 clicked, video_id, audio_path, files, dirs, artifact, run,
                 calls, errors, shown, exception>>

\* lines 658-661
Download ==
  /\ UNCHANGED requests
  /\ pc = "download"
  /\ \E outcome \in DownloadOutcomes, partial \in BOOLEAN,
        size \in SizeClasses, frames \in FrameClasses :
       LET got == download_youtube_audio(run, outcome, partial, size, frames)
       IN  /\ audio_path' = got.result
           /\ files' = files \cup got.left
           /\ dirs' = IF got.dir_left THEN dirs \cup {run} ELSE dirs
           /\ artifact' = got.artifact
           /\ pc' = AfterDownload(got.result)
  /\ calls' = Append(calls, "download_youtube_audio")
  /\ UNCHANGED <<pdf_path, transcription, summary, video_details, url,
                 clicked, button_rendered, video_id, local_details, run,
                 errors, shown, exception>>

\* line 663
Transcribe ==
  /\ UNCHANGED requests
  /\ pc = "transcribe"
  /\ \E outcome \in ServiceOutcomes(model, TranscribeOutcomes, Raises) :
       LET got == transcribe_audio(audio_path, files, outcome)
       IN  /\ transcription' = Tagged(got.result, run, video_id)
           /\ errors' = errors \cup got.error
  /\ calls' = Append(calls, "transcribe_audio")
  /\ pc' = "unlink"
  /\ UNCHANGED <<pdf_path, summary, video_details, url, clicked,
                 button_rendered, video_id, local_details, audio_path, files,
                 dirs, artifact, run, shown, exception>>

\* lines 664-669
Unlink ==
  /\ UNCHANGED requests
  /\ pc = "unlink"
  /\ \E ok \in BOOLEAN : files' = unlink(audio_path, files, ok)
  /\ pc' = AfterTranscribe(transcription)
  /\ UNCHANGED <<pdf_path, transcription, summary, video_details, url,
                 clicked, button_rendered, video_id, local_details,
                 audio_path, dirs, artifact, run, calls, errors, shown,
                 exception>>

\* lines 670-673
Summarize ==
  /\ pc = "summarize"
  /\ \E outcome \in ServiceOutcomes(openai_key, SummaryOutcomes, Raises) :
       LET got == generate_summary(transcription, outcome)
       IN  /\ summary' = Tagged(got.result, run, video_id)
           /\ errors' = errors \cup got.error
           /\ requests' = requests \o got.requests
           /\ pc' = AfterSummary(got.result)
  /\ calls' = Append(calls, "generate_summary")
  /\ UNCHANGED <<pdf_path, transcription, video_details, url, clicked,
                 button_rendered, video_id, local_details, audio_path, files,
                 dirs, artifact, run, shown, exception>>

\* lines 674-675: create_pdf returns the path of the document, or raises (the
\* renderer rejects the content or cannot write the file) and the exception
\* ends the script run
Render ==
  /\ UNCHANGED requests
  /\ pc = "render"
  /\ calls' = Append(calls, "create_pdf")
  /\ \E ok \in BOOLEAN :
       IF ok
       THEN /\ pdf_path' = create_pdf(local_details, transcription, summary, run)
            /\ pc' = "results"
            /\ UNCHANGED exception
       ELSE /\ exception' = Raised("create_pdf")
            /\ pc' = "idle"
            /\ UNCHANGED pdf_path
  /\ UNCHANGED <<transcription, summary, video_details, url, clicked,
                 button_rendered, video_id, local_details, audio_path, files,
                 dirs, artifact, run, errors, shown>>

\* lines 681-692: the download button is labelled with the title read from
\* the local name video_details, which line 645 binds only when the session
\* holds details
Results ==
  /\ UNCHANGED requests
  /\ pc = "results"
  /\ IF HasResults(pdf_path, transcription, summary)
     THEN IF local_details = Unbound
          THEN /\ exception' = Raised("NameError")
               /\ UNCHANGED shown
          ELSE /\ shown' = [py |-> "shown", pdf |-> pdf_path,
                            title |-> local_details.title,
                            preview |-> transcription]
               /\ UNCHANGED exception
     ELSE UNCHANGED <<shown, exception>>
  /\ pc' = "idle"
  /\ UNCHANGED <<pdf_path, transcription, summary, video_details, url,
                 clicked, button_rendered, video_id, local_details,
                 audio_path, files, dirs, artifact, run, calls, errors>>

(***************************************************************************)
(* The channel tab: the per-video loop                                     *)
(***************************************************************************)
VARIABLES
  \* st.session_state.videos_data
  videos_data,
  \* the script's position in the handler of "Analyze Channel", the index of
  \* the for loop (0 outside the loop), the indices the loop has visited and
  \* the list handed to create_channel_pdf (None before the call)
  ch_pc, ch_i, visited, pdf_videos

tab2vars == <<videos_data, ch_pc, ch_i, visited, pdf_videos>>

\* number of videos get_video_details_batch returns
MaxVideos == 3

\* one entry of get_video_details_batch for the k-th video
Video(k) == [video_id |-> k, title |-> k]

\* the steps before the loop that end the run with st.stop()
EarlyStops ==
  {"no_input", "no_channel", "no_stats", "no_playlist", "no_video_ids"}

\* what YouTubeTranscriptApi.get_transcript can give, joined
RawCaptions == { <<"h", "i", "U+2019">>, <<"U+03BB">> }

\* what the chat completion can return as message content
RawReplies == { <<"t", "e", "x", "t">>, <<>> }

CaptionOutcomes == {Raises} \cup {Str(t) : t \in RawCaptions}

ReplyOutcomes == {Raises} \cup {Str(t) : t \in RawReplies}

NoSummary ==
  Str(<<"N", "o", " ", "s", "u", "m", "m", "a", "r", "y", " ",
        "a", "v", "a", "i", "l", "a", "b", "l", "e">>)

NoTags ==
  Str(<<"N", "o", " ", "t", "a", "g", "s", " ",
        "g", "e", "n", "e", "r", "a", "t", "e", "d">>)

\* get_transcript(video_id): the exception is caught and None returned
get_transcript(outcome) ==
  IF outcome = Raises THEN None ELSE clean_text(outcome)

\* summarize_transcription(text): the exception is caught and None returned
summarize_transcription(text, outcome) ==
  IF outcome = Raises THEN None ELSE outcome

\* generate_tags(text): the exception is caught and None returned
generate_tags(text, outcome) ==
  IF outcome = Raises THEN None ELSE outcome

\* lines 749-759: the body of the loop for one video
process_video(video, t_out, s_out, g_out) ==
  LET transcript == get_transcript(t_out)
      s == summarize_transcription(transcript, s_out)
      tags == generate_tags(transcript, g_out)
  IN  IF Truthy(transcript)
      THEN ("transcript" :> transcript)
           @@ ("summary" :> IF Truthy(s) THEN s ELSE NoSummary)
           @@ ("tags" :> IF Truthy(tags) THEN tags ELSE NoTags)
           @@ video
      ELSE video

\* a mutation of NextVideo: a video without transcript ends the loop
NextVideo_break(i, n, video) ==
  IF "transcript" \in DOMAIN video THEN i + 1 ELSE n + 1

\* line 745: enumerate moves to the next video whatever the body did to
\* this one
NextVideo(i, n, video) == i + 1

Tab2Init ==
  /\ videos_data = None /\ ch_pc = "idle" /\ ch_i = 0 /\ visited = <<>>
  /\ pdf_videos = None

\* lines 699-741: the button is pressed; a step before the loop stops the
\* run, or get_video_details_batch returns n videos
AnalyzeChannel ==
  /\ ch_pc = "idle"
  /\ visited' = <<>>
  /\ pdf_videos' = None
  /\ \/ /\ \E stop \in EarlyStops : TRUE
        /\ UNCHANGED videos_data
        /\ ch_i' = 0
        /\ ch_pc' = "idle"
     \/ /\ videos_data' = [py |-> "list", items |-> <<>>]
        /\ ch_i' = 0
        /\ ch_pc' = "idle"
     \/ /\ \E n \in 1..MaxVideos :
             videos_data' = [py |-> "list", items |-> [k \in 1..n |-> Video(k)]]
        /\ ch_i' = 1
        /\ ch_pc' = "loop"

\* lines 745-759: one iteration of the loop
ProcessVideo ==
  /\ ch_pc = "loop"
  /\ ch_i <= Len(videos_data.items)
  /\ \E t_out \in CaptionOutcomes, s_out \in ReplyOutcomes,
        g_out \in ReplyOutcomes :
       LET video == process_video(videos_data.items[ch_i], t_out, s_out, g_out)
       IN  /\ videos_data' =
                [videos_data EXCEPT !.items = [@ EXCEPT ![ch_i] = video]]
           /\ ch_i' = NextVideo(ch_i, Len(videos_data.items), video)
  /\ visited' = Append(visited, ch_i)
  /\ UNCHANGED <<ch_pc, pdf_videos>>

\* lines 762-766: after the loop, the report is created from the list
CreateChannelPdf ==
  /\ ch_pc = "loop"
  /\ ch_i > Len(videos_data.items)
  /\ pdf_videos' = videos_data
  /\ ch_pc' = "idle"
  /\ UNCHANGED <<videos_data, ch_i, visited>>

(***************************************************************************)
(* extract_video_id and clean_text applied to drawn inputs                 *)
(***************************************************************************)
VARIABLES
  \* the string given to extract_video_id and what it returned
  ev_pc, ev_url, ev_result,
  \* the value given to clean_text, its result, and the result of clean_text
  \* applied to that result
  ct_pc, ct_text, ct_once, ct_twice

evvars == <<ev_pc, ev_url, ev_result>>

ctvars == <<ct_pc, ct_text, ct_once, ct_twice>>

Run(c, n) == [k \in 1..n |-> c]

\* the pieces the drawn URLs are made of
Segments ==
  { <<"v", "=">>, <<"/">>, <<"?">>, <<"v">>,
    Run("a", IdLen - 1), Run("b", IdLen), Run("_", IdLen + 1) }

\* number of pieces of a drawn URL
MaxSegs == 3

RECURSIVE Concats(_)
Concats(n) ==
  IF n = 0 THEN {<<>>}
  ELSE LET shorter == Concats(n - 1)
       IN  shorter \cup {s \o g : s \in shorter, g \in Segments}

\* the URL of the end-to-end scenario A
ScenarioUrl ==
  <<"h", "t", "t", "p", "s", ":", "/", "/", "w", "w", "w", ".", "y", "o", "u",
    "t", "u", "b", "e", ".", "c", "o", "m", "/", "w", "a", "t", "c", "h", "?",
    "v", "=", "d", "Q", "w", "4", "w", "9", "W", "g", "X", "c", "Q", "&", "t",
    "=", "1", "0", "s">>

ExtractInputs == {Str(s) : s \in Concats(MaxSegs) \cup {ScenarioUrl}}

\* longest drawn text
MaxTextLen == 3

\* an ASCII letter, a blank, a character with a replacement that starts with
\* a blank, a mapped emoji, the two code points of a mapped two-code-point
\* emoji, and a character no table maps
CleanChars == {"a", " ", "U+00B0", "U+1F525", "U+2764", "U+FE0F", "U+03BB"}

SeqsUpTo(S, n) == UNION {[1..k -> S] : k \in 0..n}

CleanInputs == {None} \cup {Str(s) : s \in SeqsUpTo(CleanChars, MaxTextLen)}

ExtractOff == ev_pc = "off" /\ ev_url = Str(<<>>) /\ ev_result = Unbound

CleanOff ==
  ct_pc = "off" /\ ct_text = None /\ ct_once = Unbound /\ ct_twice = Unbound

ExtractInit == ev_pc = "input" /\ ev_url \in ExtractInputs /\ ev_result = Unbound

Extract ==
  /\ ev_pc = "input"
  /\ ev_result' = extract_video_id(ev_url)
  /\ ev_pc' = "done"
  /\ UNCHANGED ev_url

CleanInit ==
  ct_pc = "input" /\ ct_text \in CleanInputs /\ ct_once = Unbound
  /\ ct_twice = Unbound

CleanOnce ==
  /\ ct_pc = "input"
  /\ ct_once' = clean_text(ct_text)
  /\ ct_pc' = "once"
  /\ UNCHANGED <<ct_text, ct_twice>>

CleanTwice ==
  /\ ct_pc = "once"
  /\ ct_twice' = clean_text(ct_once)
  /\ ct_pc' = "twice"
  /\ UNCHANGED <<ct_text, ct_once>>

(***************************************************************************)
(* The transcript pages of create_pdf                                      *)
(***************************************************************************)
VARIABLES
  \* the transcript given to create_pdf, the chunks it was sliced into, and the
  \* text written to the document for each chunk so far
  ck_pc, ck_text, ck_chunks, ck_written

ckvars == <<ck_pc, ck_text, ck_chunks, ck_written>>

chunk_size == 1000

\* [transcription[i:i + chunk_size] for i in range(0, len(transcription), chunk_size)]
transcription_chunks(t) ==
  [j \in 1..((Len(t) + chunk_size - 1) \div chunk_size) |->
     SubSeq(t, (j - 1) * chunk_size + 1,
            IF j * chunk_size < Len(t) THEN j * chunk_size ELSE Len(t))]

\* the text of the multi_cell call for one chunk
chunk_cell(chunk) == clean_text(Str(chunk)).s

\* how far before the chunk size the drawn run of letters may end
ChunkPad == 2

\* longest drawn middle piece
MaxMid == 3

\* what follows the letters: letters and blanks around the first chunk boundary
ChunkMids == SeqsUpTo({" ", "c"}, MaxMid)

\* the end of a drawn transcript: a letter, or a further chunk of letters
ChunkTails == {<<"b">>, Run("b", chunk_size)}

\* transcripts as transcribe_audio returns them: ASCII, no blank at either end
ChunkInputs ==
  {Str(Run("a", n)) : n \in 1..ChunkPad}
    \cup {Str(Run("a", n) \o m \o t) :
            n \in (chunk_size - ChunkPad)..chunk_size,
            m \in ChunkMids, t \in ChunkTails}

ChunkOff ==
  ck_pc = "off" /\ ck_text = Str(<<>>) /\ ck_chunks = <<>> /\ ck_written = <<>>

ChunkInit ==
  ck_pc = "input" /\ ck_text \in ChunkInputs /\ ck_chunks = <<>>
  /\ ck_written = <<>>

\* line 377: the transcript is sliced
SplitChunks ==
  /\ ck_pc = "input"
  /\ ck_chunks' = transcription_chunks(ck_text.s)
  /\ ck_pc' = "write"
  /\ UNCHANGED <<ck_text, ck_written>>

\* lines 379-381: one turn of the loop over the chunks
WriteChunk ==
  /\ ck_pc = "write"
  /\ Len(ck_written) < Len(ck_chunks)
  /\ ck_written' = Append(ck_written, chunk_cell(ck_chunks[Len(ck_written) + 1]))
  /\ ck_pc' = IF Len(ck_written) + 1 = Len(ck_chunks) THEN "done" ELSE "write"
  /\ UNCHANGED <<ck_text, ck_chunks>>

(***************************************************************************)
(* get_all_video_ids: the pages of the uploads playlist                    *)
(***************************************************************************)
VARIABLES
  \* the playlist the service holds (its videos are numbered in playlist
  \* order), the argument max_results, the position in the function, its
  \* locals video_ids and next_page_token, the st.error messages it emitted
  \* and the value it returned
  playlist_len, max_results, gv_pc, video_ids, next_page_token, gv_errors,
  gv_result

gvvars ==
  <<playlist_len, max_results, gv_pc, video_ids, next_page_token, gv_errors,
    gv_result>>

\* the service's largest page: min(50, ...) at line 430
PageCap == 50

\* how far the drawn sizes go beyond 0 and beyond the page cap
Extra == 2

\* sizes around one and around a full page
DrawnSizes == (0..Extra) \cup ((PageCap - 1)..(PageCap + Extra))

Min(a, b) == IF a < b THEN a ELSE b

\* a page token: the number of items the earlier pages held
Token(offset) == [py |-> "token", offset |-> offset]

\* maxResults of line 430
page_request_size(max, ids) == Min(PageCap, max - Len(ids))

\* how many items the service can put on the page that starts after `offset`
\* when asked for at most m: all it may, or fewer
PageSizes(n, offset, m) ==
  LET full == Min(m, n - offset)
  IN  IF full <= 0 THEN {0} ELSE {1, full}

\* the response of playlistItems().list: k items from the token's position
\* on, and a nextPageToken when items remain after them
playlist_page(n, token, k) ==
  LET offset == IF token = None THEN 0 ELSE token.offset
  IN  [items |-> [i \in 1..k |-> offset + i],
       nextPageToken |-> IF offset + k < n THEN Token(offset + k) ELSE None]

RECURSIVE append_items(_, _, _)
\* lines 435-438: the items are appended one by one until max_results
append_items(ids, items, max) ==
  IF items = <<>> THEN ids
  ELSE LET more == Append(ids, Head(items))
       IN  IF Len(more) >= max THEN more
           ELSE append_items(more, Tail(items), max)

\* a mutation of response_token: the token of the response is not read
response_token_dropped(response) == None

\* line 441: response.get("nextPageToken")
response_token(response) == response.nextPageToken

\* line 442: the condition of the break
loop_ends(token, ids, max) == ~Truthy(token) \/ Len(ids) >= max

PlaylistOff ==
  /\ playlist_len = 0 /\ max_results = 0 /\ gv_pc = "off"
  /\ video_ids = <<>> /\ next_page_token = None /\ gv_errors = {}
  /\ gv_result = Unbound

\* lines 422-423, for a drawn playlist and a drawn max_results >= 1
PlaylistInit ==
  /\ playlist_len \in DrawnSizes
  /\ max_results \in DrawnSizes \ {0}
  /\ gv_pc = "loop"
  /\ video_ids = <<>> /\ next_page_token = None /\ gv_errors = {}
  /\ gv_result = Unbound

\* lines 425-446: one turn of the while loop, with a response or an exception
RequestPage ==
  /\ gv_pc = "loop"
  /\ \/ \E k \in PageSizes(playlist_len,
                          IF next_page_token = None THEN 0
                          ELSE next_page_token.offset,
                          page_request_size(max_results, video_ids)) :
          LET response == playlist_page(playlist_len, next_page_token, k)
              ids == append_items(video_ids, response.items, max_results)
              token == response_token(response)
          IN  /\ video_ids' = ids
              /\ next_page_token' = token
              /\ gv_pc' = IF loop_ends(token, ids, max_results)
                          THEN "return" ELSE "loop"
              /\ UNCHANGED gv_errors
     \/ /\ gv_errors' = gv_errors \cup {"video_ids"}
        /\ gv_pc' = "return"
        /\ UNCHANGED <<video_ids, next_page_token>>
  /\ UNCHANGED <<playlist_len, max_results, gv_result>>

\* line 448
ReturnVideoIds ==
  /\ gv_pc = "return"
  /\ gv_result' = video_ids
  /\ gv_pc' = "returned"
  /\ UNCHANGED <<playlist_len, max_results, video_ids, next_page_token,
                 gv_errors>>

(***************************************************************************)
(* Specifications                                                          *)
(***************************************************************************)
vars == <<tab1vars, cfgvars, tab2vars, evvars, ctvars, ckvars, gvvars>>

Init ==
  Tab1Init /\ ConfigComplete /\ Tab2Init /\ ExtractOff /\ CleanOff /\ ChunkOff
  /\ PlaylistOff

Next ==
  \/ (\E u \in Urls, c \in BOOLEAN : Rerun(u, c))
       /\ UNCHANGED <<cfgvars, tab2vars, evvars, ctvars, ckvars, gvvars>>
  \/ Identify
       /\ UNCHANGED <<cfgvars, tab2vars, evvars, ctvars, ckvars, gvvars>>
  \/ MetadataGate
       /\ UNCHANGED <<cfgvars, tab2vars, evvars, ctvars, ckvars, gvvars>>
  \/ Display /\ UNCHANGED <<cfgvars, tab2vars, evvars, ctvars, ckvars, gvvars>>
  \/ Download
       /\ UNCHANGED <<cfgvars, tab2vars, evvars, ctvars, ckvars, gvvars>>
  \/ Transcribe
       /\ UNCHANGED <<cfgvars, tab2vars, evvars, ctvars, ckvars, gvvars>>
  \/ Unlink /\ UNCHANGED <<cfgvars, tab2vars, evvars, ctvars, ckvars, gvvars>>
  \/ Summarize
       /\ UNCHANGED <<cfgvars, tab2vars, evvars, ctvars, ckvars, gvvars>>
  \/ Render /\ UNCHANGED <<cfgvars, tab2vars, evvars, ctvars, ckvars, gvvars>>
  \/ Results /\ UNCHANGED <<cfgvars, tab2vars, evvars, ctvars, ckvars, gvvars>>

\* the single-video tab
Spec == Init /\ [][Next]_vars

InitConfig ==
  Tab1Init /\ ConfigInit /\ Tab2Init /\ ExtractOff /\ CleanOff /\ ChunkOff
  /\ PlaylistOff

\* the single-video tab in a process started with any configuration
SpecConfig == InitConfig /\ [][Next]_vars

ChannelNext ==
  \/ AnalyzeChannel
       /\ UNCHANGED <<tab1vars, cfgvars, evvars, ctvars, ckvars, gvvars>>
  \/ ProcessVideo
       /\ UNCHANGED <<tab1vars, cfgvars, evvars, ctvars, ckvars, gvvars>>
  \/ CreateChannelPdf
       /\ UNCHANGED <<tab1vars, cfgvars, evvars, ctvars, ckvars, gvvars>>

\* the channel tab
SpecChannel == Init /\ [][ChannelNext]_vars

InitExtract ==
  Tab1Init /\ ConfigComplete /\ Tab2Init /\ ExtractInit /\ CleanOff /\ ChunkOff
  /\ PlaylistOff

ExtractNext ==
  Extract
    /\ UNCHANGED <<tab1vars, cfgvars, tab2vars, ctvars, ckvars, gvvars>>

\* extract_video_id on drawn strings
SpecExtract == InitExtract /\ [][ExtractNext]_vars

InitClean ==
  Tab1Init /\ ConfigComplete /\ Tab2Init /\ ExtractOff /\ CleanInit /\ ChunkOff
  /\ PlaylistOff

CleanNext ==
  \/ CleanOnce
       /\ UNCHANGED <<tab1vars, cfgvars, tab2vars, evvars, ckvars, gvvars>>
  \/ CleanTwice
       /\ UNCHANGED <<tab1vars, cfgvars, tab2vars, evvars, ckvars, gvvars>>

\* clean_text on drawn texts
SpecClean == InitClean /\ [][CleanNext]_vars

InitChunk ==
  Tab1Init /\ ConfigComplete /\ Tab2Init /\ ExtractOff /\ CleanOff /\ ChunkInit
  /\ PlaylistOff

ChunkNext ==
  \/ SplitChunks
       /\ UNCHANGED <<tab1vars, cfgvars, tab2vars, evvars, ctvars, gvvars>>
  \/ WriteChunk
       /\ UNCHANGED <<tab1vars, cfgvars, tab2vars, evvars, ctvars, gvvars>>

\* the transcript pages of create_pdf on drawn transcripts
SpecChunk == InitChunk /\ [][ChunkNext]_vars

InitPlaylist ==
  Tab1Init /\ ConfigComplete /\ Tab2Init /\ ExtractOff /\ CleanOff /\ ChunkOff
  /\ PlaylistInit

PlaylistNext ==
  \/ RequestPage
       /\ UNCHANGED <<tab1vars, cfgvars, tab2vars, evvars, ctvars, ckvars>>
  \/ ReturnVideoIds
       /\ UNCHANGED <<tab1vars, cfgvars, tab2vars, evvars, ctvars, ckvars>>

\* get_all_video_ids on drawn playlists
SpecPlaylist == InitPlaylist /\ [][PlaylistNext]_vars

(***************************************************************************)
(* Properties                                                              *)
(***************************************************************************)
\* the current rerun has called the stage function f
Called(f) == \E k \in 1..Len(calls) : calls[k] = f

\* C1: the single-video pipeline halts at the first failing stage.  In a
\* rerun where download_youtube_audio returned None, transcribe_audio,
\* generate_summary and create_pdf are not called; where transcribe_audio
\* returned None or the empty text, generate_summary and create_pdf are not
\* called; where generate_summary returned None or the empty text,
\* create_pdf is not called.
C1_HaltsAtFirstFailure ==
  /\ (Called("download_youtube_audio") /\ ~Truthy(audio_path))
       => /\ ~Called("transcribe_audio")
          /\ ~Called("generate_summary")
          /\ ~Called("create_pdf")
          /\ pc \in {"results", "idle"}
  /\ (Called("transcribe_audio") /\ ~Truthy(transcription))
       => /\ ~Called("generate_summary")
          /\ ~Called("create_pdf")
          /\ pc \in {"unlink", "results", "idle"}
  /\ (Called("generate_summary") /\ ~Truthy(summary))
       => /\ ~Called("create_pdf")
          /\ pc \in {"results", "idle"}

\* a rerun has ended in which the button was pressed and the download failed
C1_Witness ==
  /\ pc = "idle"
  /\ clicked
  /\ calls = <<"download_youtube_audio">>
  /\ audio_path = None

\* C2: when extract_video_id finds no identifier, no later stage runs: the
\* metadata request get_video_details is not made and neither is any stage
\* after it.
C2_NoCallWithoutIdentifier ==
  video_id = None => calls = <<>>

\* C3: download_youtube_audio is only ever called while the session holds
\* the metadata of the video whose identifier is currently entered; a rerun
\* whose metadata fetch left no details never reaches the download, whatever
\* was cached before and whether or not the button was pressed.
C3_NoDownloadWithoutMetadata ==
  /\ (Called("download_youtube_audio") \/ pc = "download")
       => /\ Truthy(video_details)
          /\ video_details.id = video_id
          /\ Truthy(video_id)
  /\ (Called("get_video_details") /\ ~Truthy(video_details))
       => /\ ~Called("download_youtube_audio")
          /\ pc \in {"display", "results", "idle"}

\* a rerun has ended in which video B was entered and the button of an
\* earlier video pressed, the metadata request for B failed, and a document
\* of an earlier run is still held
C3_Witness ==
  /\ pc = "idle"
  /\ clicked
  /\ video_id = Str(IdB)
  /\ calls = <<"get_video_details">>
  /\ video_details = None
  /\ Truthy(pdf_path)

\* C4: once transcribe_audio has returned and the handler has passed its
\* cleanup, no audio file this run created exists any more.
C4_AudioFilesGone ==
  (Called("transcribe_audio") /\ pc \in {"summarize", "render", "results", "idle"})
    => files = {}

\* C5: download_youtube_audio returns a path only for a file above the size
\* threshold with at least one frame, so transcribe_audio is never called on
\* another one; for a file below the threshold or without frames it returns
\* None and leaves no file.
C5_ValidatedBeforeTranscribe ==
  /\ Called("transcribe_audio")
       => /\ artifact # None
          /\ artifact.size = "above_threshold"
          /\ artifact.frames = "some_frames"
  /\ (artifact # None
      /\ (artifact.size = "below_threshold" \/ artifact.frames = "zero_frames"))
       => ~Truthy(audio_path) /\ files = {}

\* C6: the document offered for download, the transcription previewed and
\* the summary held were produced by one and the same run, and that run was
\* for the video currently entered.
C6_NoStateCrossesRuns ==
  shown # None
    => /\ shown.pdf.run = shown.preview.run
       /\ shown.pdf.run = summary.run
       /\ shown.pdf.vid = video_id
       /\ shown.preview.vid = video_id

\* C7: a rerun that stopped because the metadata fetch, the download, the
\* transcription or the summarization failed has emitted an st.error for
\* that stage.
C7_FailuresSurfaced ==
  pc = "idle"
    => /\ (Called("get_video_details") /\ ~Truthy(video_details))
            => "metadata" \in errors
       /\ (Called("download_youtube_audio") /\ ~Truthy(audio_path))
            => "download" \in errors
       /\ (Called("transcribe_audio") /\ ~Truthy(transcription))
            => "transcribe" \in errors
       /\ (Called("generate_summary") /\ ~Truthy(summary))
            => "summary" \in errors

\* the keys get_video_details_batch gives a video
BaseKeys == DOMAIN Video(1)

C8_State ==
  /\ ch_pc = "loop"
       => /\ ch_i <= Len(videos_data.items) + 1
          /\ visited = [k \in 1..(ch_i - 1) |-> k]
  /\ pdf_videos # None
       => /\ pdf_videos = videos_data
          /\ visited = [k \in 1..Len(videos_data.items) |-> k]
  /\ (ch_pc = "idle" /\ ch_i > 0) => pdf_videos # None
  /\ ch_i > 0
       => \A k \in 1..Len(videos_data.items) :
            LET video == videos_data.items[k]
            IN  /\ \A f \in BaseKeys : video[f] = Video(k)[f]
                /\ \/ DOMAIN video = BaseKeys
                   \/ /\ DOMAIN video = BaseKeys \cup {"transcript", "summary", "tags"}
                      /\ k < ch_i
                      /\ Truthy(video["transcript"])
                      /\ Truthy(video["summary"])
                      /\ Truthy(video["tags"])

C8_Step ==
  ch_pc = "loop"
    => \A k \in 1..Len(videos_data.items) :
         k # ch_i => videos_data'.items[k] = videos_data.items[k]

\* C8: whatever get_transcript, summarize_transcription and generate_tags do
\* for each video, the loop visits every video once and in order,
\* create_channel_pdf is then called with the whole list, an iteration
\* changes no record but that of its own video, and a video's record is
\* what the batch fetch gave, alone or with a transcript, a summary or its
\* placeholder and tags or their placeholder.
C8_PerVideoAtomicity == []C8_State /\ [][C8_Step]_vars

\* the report was created from three videos: no transcript for the first,
\* the placeholder summary for the second, everything for the third
C8_Witness ==
  /\ pdf_videos # None
  /\ Len(pdf_videos.items) = 3
  /\ DOMAIN pdf_videos.items[1] = BaseKeys
  /\ "summary" \in DOMAIN pdf_videos.items[2]
  /\ pdf_videos.items[2]["summary"] = NoSummary
  /\ "tags" \in DOMAIN pdf_videos.items[3]
  /\ pdf_videos.items[3]["summary"] # NoSummary
  /\ pdf_videos.items[3]["tags"] # NoTags

\* an 11-character run of the identifier alphabet starts at q in s, right
\* after "v=" or "/"
TokenAt(s, q) ==
  /\ q + IdLen - 1 <= Len(s)
  /\ \A k \in 0..(IdLen - 1) : s[q + k] \in IdChars
  /\ \/ q >= 2 /\ s[q - 1] = "/"
     \/ q >= 3 /\ s[q - 2] = "v" /\ s[q - 1] = "="

C10_Idempotent == ct_pc = "twice" => ct_twice = ct_once

\* clean_text was applied twice to a degree sign followed by the two code
\* points of the heart emoji: the replacement's leading blank is stripped
C10_Witness ==
  /\ ct_pc = "twice"
  /\ ct_text = Str(<<"U+00B0", "U+2764", "U+FE0F">>)
  /\ ct_once = Str(<<"d", "e", "g", "[", "H", "e", "a", "r", "t", "]">>)
  /\ ct_twice = ct_once

\* C11: clean_text returns, for every text and for None, a string of ASCII
\* characters only.
C11_AsciiOnly ==
  ct_pc \in {"once", "twice"}
    => /\ ct_once.py = "str"
       /\ \A k \in 1..Len(ct_once.s) : Len(ct_once.s[k]) = 1

\* clean_text was applied to a letter followed by two characters that no
\* table maps, and returned the letter alone
C11_Witness ==
  /\ ct_pc = "once"
  /\ ct_text = Str(<<"a", "U+03BB", "U+FE0F">>)
  /\ ct_once = Str(<<"a">>)

RECURSIVE Joined(_)
\* the elements of a sequence of texts, one after the other
Joined(ts) == IF ts = <<>> THEN <<>> ELSE Head(ts) \o Joined(Tail(ts))

\* C12: when create_pdf has written the transcript, the transcript was sliced
\* into ceil(L / 1000) chunks of at most 1000 characters, in order, and the
\* texts written for them, one after the other, are the sanitized transcript.
C12_ChunksRebuildTranscript ==
  ck_pc = "done"
    => /\ Len(ck_chunks) * chunk_size >= Len(ck_text.s)
       /\ (Len(ck_chunks) - 1) * chunk_size < Len(ck_text.s)
       /\ \A j \in 1..Len(ck_chunks) : Len(ck_chunks[j]) <= chunk_size
       /\ Joined(ck_chunks) = ck_text.s
       /\ Joined(ck_written) = clean_text(ck_text).s

\* C13: in a process started without a required key or without the Whisper
\* model, no stage function (metadata fetch, download, transcription,
\* summarization) is ever called.
C13_MissingConfigFailsFast == ~ConfigComplete => calls = <<>>

\* the sanitized answers of the summarization service
ServiceSummaries == {clean_text(o) : o \in SummaryOutcomes \ {Raises}}

\* the rerun is past the summary stage with a transcript to summarize
SummaryStagePassed ==
  /\ Called("transcribe_audio")
  /\ Truthy(transcription)
  /\ pc \in {"render", "results", "idle"}

\* C14 as stated: past the summary stage, a transcript of at most 50 words
\* has a summary that was substituted without a call of generate_summary, and
\* a transcript of 500 words or more was sent to the service exactly once,
\* in full.
C14_ShortTranscriptPlaceholder ==
  SummaryStagePassed
    => /\ WordCount(transcription.s) <= 50
            => ~Called("generate_summary") /\ requests = <<>> /\ Truthy(summary)
       /\ WordCount(transcription.s) >= 500 => requests = <<transcription>>

\* C14 as the code has it: past the summary stage, whatever the length of
\* the transcript, generate_summary was called once, the service was sent the
\* full transcript exactly once, and the summary is the sanitized answer of
\* the service or None; no other text is substituted.
C14_AlwaysSummarized ==
  SummaryStagePassed
    => /\ Cardinality({k \in 1..Len(calls) : calls[k] = "generate_summary"}) = 1
       /\ requests = <<transcription>>
       /\ summary \in {None} \cup
                        {Tagged(a, run, video_id) : a \in ServiceSummaries}

C14_Witness ==
  /\ pc = "results"
  /\ Called("generate_summary")
  /\ WordCount(transcription.s) >= 500
  /\ requests = <<transcription>>
  /\ Truthy(summary)

\* C15: when download_youtube_audio has returned None, no temporary file and
\* no temporary directory it created exists any more.
C15_TempResourcesScoped ==
  (Called("download_youtube_audio") /\ audio_path = None)
    => files = {} /\ dirs = {}

\* this step called get_video_details
Fetched ==
  /\ Len(calls') = Len(calls) + 1
  /\ calls'[Len(calls')] = "get_video_details"

\* cached details are those of the video with their id, a rerun past line 642
\* holds no details of another video than the current one, and no rerun
\* called get_video_details twice
C16_State ==
  /\ Truthy(video_details) => video_details.title = video_details.id
  /\ (Truthy(video_details) /\ pc \in {"display", "download", "transcribe"})
       => video_details.id = video_id
  /\ Cardinality({k \in 1..Len(calls) : calls[k] = "get_video_details"}) <= 1

\* a step calls get_video_details only with nothing cached or with another
\* id cached, and lines 638-642 with the current id cached leave the cache as
\* it is without a call
C16_Step ==
  /\ Fetched
       => /\ pc = "metadata"
          /\ video_details = None \/ video_details.id # video_id
  /\ (pc = "metadata" /\ pc' = "display"
        /\ video_details # None /\ video_details.id = video_id)
       => ~Fetched /\ video_details' = video_details

\* C16: across reruns get_video_details is called only when no details are
\* cached or the cached id differs from the id of the current URL, at most
\* once per rerun; with the current id cached it is not called and the cache
\* is kept; cached details always carry the id of the video they were
\* fetched for.
C16_MetadataCached == []C16_State /\ [][C16_Step]_vars

C16_Witness ==
  /\ clicked
  /\ Called("download_youtube_audio")
  /\ ~Called("get_video_details")
  /\ video_details # None
  /\ video_details.id = video_id

\* the first n videos of the playlist, in playlist order
FirstIds(n) == [i \in 1..n |-> i]

\* what get_all_video_ids holds, and what it returned, is the start of the
\* playlist and no longer than max_results; a return with no request raised
\* is the first min(max_results, N) ids
C17_State ==
  /\ gv_pc # "off"
       => /\ Len(video_ids) <= Min(max_results, playlist_len)
          /\ video_ids = FirstIds(Len(video_ids))
  /\ gv_pc = "returned"
       => /\ gv_result = video_ids
          /\ gv_errors = {}
               => gv_result = FirstIds(Min(max_results, playlist_len))

\* a turn of the loop that goes on has collected more ids than before, so
\* the loop ends; a request that raises keeps the ids collected so far and
\* leaves the loop
C17_Step ==
  /\ (gv_pc = "loop" /\ gv_pc' = "loop") => Len(video_ids') > Len(video_ids)
  /\ (gv_pc = "loop" /\ gv_errors' # gv_errors)
       => video_ids' = video_ids /\ gv_pc' = "return"

\* C17: get_all_video_ids with max_results >= 1 terminates and returns the
\* first min(max_results, N) ids of the playlist in playlist order, never more
\* than max_results; when a page request raises it returns the ids of the
\* earlier pages.
C17_FirstIdsReturned == []C17_State /\ [][C17_Step]_vars

C17_Witness ==
  /\ gv_pc = "returned"
  /\ gv_errors = {}
  /\ playlist_len > max_results
  /\ max_results > PageCap
  /\ gv_result = FirstIds(max_results)

\* C18: whenever the results block is about to run with pdf_path,
\* transcription and summary all set, the session holds the details of the
\* current video and the script has bound them, and no rerun ends with the
\* NameError of reading the title from a name that was never bound.
C18_ResultsHaveMetadata ==
  /\ (pc = "results" /\ HasResults(pdf_path, transcription, summary))
       => /\ Truthy(video_details)
          /\ video_details.id = video_id
          /\ local_details = video_details
  /\ exception # Raised("NameError")
=============================================================================
